---------------------------- MODULE Spec2Model ----------------------------
(***************************************************************************)
(* A model of go-rplidar-sdk-handler: the Measure value type, the          *)
(* DefaultHandler that launches and supervises the ultra_simple process,   *)
(* drains its two output streams and keeps the 360-slot measures array,    *)
(* and the queries that read that array.                                   *)
(*                                                                         *)
(* Numbers.  Angles are float64 in the source.  Here an angle is an        *)
(* integer count of half degrees (Deg(1) = 2 units), which keeps every     *)
(* comparison, sum and difference of the source exact and leaves room for  *)
(* fractional angles; int(angle) truncates toward zero as Go does.         *)
(* Distances are integers (millimetres).                                   *)
(***************************************************************************)
EXTENDS Integers, Sequences, FiniteSets, TLC

(***************************************************************************)
(* Bounds of the model.                                                    *)
(***************************************************************************)
\* Goroutines that call Run on the one handler.
NumCallers == 2
\* Lines the ultra_simple process writes to stdout in one run, at most.
MaxStdoutLines == 8
\* Goroutines that call GetMeasures.
NumQueriers == 1

(***************************************************************************)
(* Program constants.                                                      *)
(***************************************************************************)
\* The measures array has one slot per whole degree: [360]*Measure.
NumSlots == 360
\* constants.go: IgnoreFirstStdoutMessages.
IgnoreFirstStdoutMessages == 6

\* d degrees in the model's angle unit (half degrees).
Deg(d) == d * 2

\* The float64 literal 360.0.
FullTurn == Deg(NumSlots)

\* Go's int(x) for a float64 angle x: truncation toward zero.
GoInt(angle) ==
    IF angle >= 0 THEN angle \div Deg(1) ELSE -((-angle) \div Deg(1))

\* Go's integer remainder a % n: the result has the sign of a.
GoRem(a, n) == IF a >= 0 THEN a % n ELSE -((-a) % n)

(***************************************************************************)
(* Measure                                                                 *)
(***************************************************************************)
\* The nil *Measure: an absent slot, or no value beside an error.
NilMeasure ==
    [present |-> FALSE, angle |-> 0, distance |-> 0, quality |-> 0,
     hasSyncBit |-> FALSE]

\* &Measure{angle, distance, quality, hasSyncBit}
Measure(angle, distance, quality, hasSyncBit) ==
    [present |-> TRUE, angle |-> angle, distance |-> distance,
     quality |-> quality, hasSyncBit |-> hasSyncBit]

\* validateAngle with one range check for every reading: a rotation-marked
\* angle of 360 or more is refused as well.
validateAngleOneRange(angle, hasSyncBit) ==
    IF angle < 0 \/ angle >= FullTurn
    THEN "angle without sync bit must be in [0, 360)"
    ELSE "nil"

\* validateAngle: the error it returns, "nil" for none.
validateAngle(angle, hasSyncBit) ==
    IF ~hasSyncBit
    THEN IF angle < 0 \/ angle >= FullTurn
         THEN "angle without sync bit must be in [0, 360)"
         ELSE "nil"
    ELSE IF angle < 0
         THEN "angle with sync bit must be non-negative"
         ELSE "nil"

\* NewMeasure whose normalisation handles only the angles of 360 and more:
\* a negative angle is left as it is.
AdjustAngleNoNegativeWrap(angle, hasSyncBit, isUpsideDown, angleAdjustment) ==
    LET a1 == IF hasSyncBit THEN angle - FullTurn ELSE angle
        a2 == IF isUpsideDown THEN FullTurn - a1 ELSE a1
        a3 == IF angleAdjustment # 0 THEN a2 + angleAdjustment ELSE a2
    IN  IF a3 >= FullTurn THEN a3 - FullTurn ELSE a3

\* NewMeasure, after the angle was validated: the sync-bit shift, the
\* upside-down reflection, the adjustment and the one-step normalisation.
AdjustAngle(angle, hasSyncBit, isUpsideDown, angleAdjustment) ==
    LET a1 == IF hasSyncBit THEN angle - FullTurn ELSE angle
        a2 == IF isUpsideDown THEN FullTurn - a1 ELSE a1
        a3 == IF angleAdjustment # 0 THEN a2 + angleAdjustment ELSE a2
    IN  IF a3 < 0 THEN a3 + FullTurn
        ELSE IF a3 >= FullTurn THEN a3 - FullTurn
        ELSE a3

\* NewMeasure: [err, m], m the nil Measure when err is not "nil".
NewMeasure(angle, distance, quality, hasSyncBit, isUpsideDown, angleAdjustment) ==
    LET err == validateAngle(angle, hasSyncBit)
    IN  IF err # "nil"
        THEN [err |-> err, m |-> NilMeasure]
        ELSE [err |-> "nil",
              m   |-> Measure(AdjustAngle(angle, hasSyncBit, isUpsideDown,
                                          angleAdjustment),
                              distance, quality, hasSyncBit)]

(***************************************************************************)
(* A line of text is modelled by its whitespace-separated fields           *)
(* (strings.Fields).  A field is a token [kind, val]:                      *)
(*   "S"     the sync bit character,                                       *)
(*   "int"   an integer literal of value val (parses as float and as int), *)
(*   "frac"  a literal with a fractional part, of value val (parses as     *)
(*           float only),                                                  *)
(*   "bad"   text that is no number.                                       *)
(* For an angle field val is in half degrees; for any other field it is    *)
(* the number itself.                                                      *)
(***************************************************************************)
Tok(kind, val) == [kind |-> kind, val |-> val]

\* gostringsconvert.ToFloat64: whether the field parses.
ToFloat64Ok(tok) == tok.kind \in {"int", "frac"}

\* gostringsconvert.ToInt: whether the field parses.
ToIntOk(tok) == tok.kind = "int"

\* NewMeasureFromString on the fields of the line.
NewMeasureFromString(fields, isUpsideDown, angleAdjustment) ==
    LET hasSyncBit == Len(fields) = 4 /\ fields[1].kind = "S"
        rest       == IF hasSyncBit THEN Tail(fields) ELSE fields
    IN  IF Len(rest) # 3
        THEN [err |-> "expected 3 fields", m |-> NilMeasure]
        ELSE IF ~ToFloat64Ok(rest[1])
        THEN [err |-> "failed to parse angle", m |-> NilMeasure]
        ELSE IF ~ToFloat64Ok(rest[2])
        THEN [err |-> "failed to parse distance", m |-> NilMeasure]
        ELSE IF ~ToIntOk(rest[3])
        THEN [err |-> "failed to parse quality", m |-> NilMeasure]
        ELSE NewMeasure(rest[1].val, rest[2].val, rest[3].val, hasSyncBit,
                        isUpsideDown, angleAdjustment)

(***************************************************************************)
(* Text.  A string is a sequence of pieces: a literal (an "int", "frac" or *)
(* "bad" token, or the "S" character), a run of white space, or the        *)
(* AttributesSeparator.                                                    *)
(***************************************************************************)
\* White space between two pieces of a line.
Space == Tok(" ", 0)

\* constants.go: AttributesSeparator = ",".
AttributesSeparator == Tok(",", 0)

\* The field a run of pieces without white space makes: the piece itself
\* when it stands alone, and text that is no number when the run joins
\* several pieces ("90.000000,500.000000,10").
FieldOf(run) == IF Len(run) = 1 THEN run[1] ELSE Tok("bad", 0)

\* strings.Fields, with the run of pieces read since the last white space
\* and the fields found so far.
RECURSIVE SplitFields(_, _, _)
SplitFields(text, run, acc) ==
    LET closed == IF run = <<>> THEN acc ELSE Append(acc, FieldOf(run))
    IN  IF text = <<>> THEN closed
        ELSE IF Head(text) = Space THEN SplitFields(Tail(text), <<>>, closed)
        ELSE SplitFields(Tail(text), Append(run, Head(text)), acc)

\* strings.Fields(measureStr): the line split around its white space.
Fields(text) == SplitFields(text, <<>>, <<>>)

\* Measure.String: fmt.Sprintf("%f%s%f%s%d", angle, AttributesSeparator,
\* distance, AttributesSeparator, quality).  %f writes a decimal point and
\* six decimals, which holds every angle of the model (half degrees) and
\* every distance exactly; such a literal parses as a float, not as an int.
MeasureString(m) ==
    <<Tok("frac", m.angle), AttributesSeparator, Tok("frac", m.distance),
      AttributesSeparator, Tok("int", m.quality)>>

\* The line "<angle> <distance> <quality>" the ultra_simple process writes.
DataLine(angle, distance, quality) ==
    <<angle, Space, distance, Space, quality>>

\* The line "S <angle> <distance> <quality>" of a rotation boundary.
SyncDataLine(angle, distance, quality) ==
    <<Tok("S", 0), Space>> \o DataLine(angle, distance, quality)


(***************************************************************************)
(* DefaultHandler                                                          *)
(***************************************************************************)
Callers  == 1..NumCallers
Queriers == 1..NumQueriers
Slots    == 0..(NumSlots - 1)

\* The lines the ultra_simple process may write to stdout.
StdoutLines ==
    { <<Tok("int", Deg(0)), Tok("int", 500), Tok("int", 10)>>,
      <<Tok("int", Deg(90)), Tok("int", 700), Tok("int", 10)>>,
      <<Tok("S", 0), Tok("int", Deg(0)), Tok("int", 600), Tok("int", 10)>>,
      <<Tok("int", Deg(90)), Tok("bad", 0), Tok("int", 10)>> }

\* The slot boundaries at which the model lets other goroutines run while
\* copy(measuresCopy[:], h.measures[:]) is under way.  The program can be
\* preempted at any slot; these boundaries separate the slots that
\* StdoutLines address.
CopyCuts == {45, 180}

\* The <<isUpsideDown, angleAdjustment>> the handler may be built with.
HandlerConfigs == {<<FALSE, Deg(0)>>}

\* A [360]*Measure is modelled by the function from the slots that hold a
\* Measure to that Measure; a slot outside its domain is nil.
\* [360]*Measure{}: every slot nil.
EmptyMeasures == [i \in {} |-> NilMeasure]

\* ms[i] for an index i of the array.
MeasureAt(ms, i) == IF i \in DOMAIN ms THEN ms[i] ELSE NilMeasure

\* The array ms after ms[i] = m, for an index i of the array.
WithMeasure(ms, i, m) ==
    [j \in (DOMAIN ms) \cup {i} |-> IF j = i THEN m ELSE ms[j]]

\* The array to after copy(to[from:upTo], ms[from:upTo]).
WithCopied(to, ms, from, upTo) ==
    LET copied == {i \in DOMAIN ms : from <= i /\ i < upTo}
        kept   == {i \in DOMAIN to : i < from \/ i >= upTo}
    IN  [i \in copied \cup kept |-> IF i \in copied THEN ms[i] ELSE to[i]]

(***************************************************************************)
(* The averaging functions of utils.go.  A float64 result is the pair of   *)
(* the numerator and the denominator of the division that gives it;        *)
(* 0.0 / 0 is NaN.  A call ends with a return or with a run-time panic.    *)
(***************************************************************************)
\* The float64 of an integer or of a stored distance.
Float(x) == [num |-> x, den |-> 1]

\* totalDistance / float64(count).
Quotient(totalDistance, count) == [num |-> totalDistance, den |-> count]

\* The float64 is NaN.
IsNaN(v) == v.den = 0 /\ v.num = 0

\* return val, err, after the reads measures[angles[1]], measures[angles[2]], ...
Return(val, err, angles) ==
    [outcome |-> "return", val |-> val, err |-> err, angles |-> angles]

\* A run-time panic, index out of range, at the last of the reads.
Panic(angles) ==
    [outcome |-> "panic", val |-> Float(0), err |-> "index out of range",
     angles |-> angles]

\* The ints from, from + 1, ..., to, in that order: what a loop
\* for angle := from; angle <= to; angle++ appends.
Upto(from, to) == [i \in 1..(to - from + 1) |-> from + i - 1]

Max(a, b) == IF a >= b THEN a ELSE b

Min(a, b) == IF a <= b THEN a ELSE b

\* GetAverageDistanceFromAngle, the width checks: the error, "nil" for none.
CheckWidth(width) ==
    IF GoRem(width, 2) = 0 THEN "ErrAngleWidthMustBeOdd"
    ELSE IF width < 1 THEN "ErrAngleWidthTooSmall"
    ELSE IF width >= 360 THEN "ErrAngleWidthTooLarge"
    ELSE "nil"

\* The width 1 case with the filter of the averaging loop: a slot of zero
\* distance or zero quality counts as absent.
SingleAngleUsableOnly(measures, middleAngle) ==
    IF middleAngle \notin Slots THEN Panic(<<middleAngle>>)
    ELSE IF \/ ~MeasureAt(measures, middleAngle).present
            \/ MeasureAt(measures, middleAngle).distance = 0
            \/ MeasureAt(measures, middleAngle).quality = 0
    THEN Return(Float(0), "nil", <<middleAngle>>)
    ELSE Return(Float(MeasureAt(measures, middleAngle).distance), "nil",
                <<middleAngle>>)

\* GetAverageDistanceFromAngle with width 1: the slot at middleAngle alone.
SingleAngle(measures, middleAngle) ==
    IF middleAngle \notin Slots THEN Panic(<<middleAngle>>)
    ELSE IF ~MeasureAt(measures, middleAngle).present
    THEN Return(Float(0), "nil", <<middleAngle>>)
    ELSE Return(Float(MeasureAt(measures, middleAngle).distance), "nil",
                <<middleAngle>>)

\* GetAverageDistanceFromAngle with width above 1: the slice angles, from
\* the three loops in the order of the source.
WindowAngles(middleAngle, width) ==
    LET widthPerSide == (width - 1) \div 2
        leftAngle    == middleAngle - widthPerSide
        rightAngle   == middleAngle + widthPerSide
        below == IF leftAngle < 0 THEN Upto(360 + leftAngle, 359) ELSE <<>>
        above == IF rightAngle >= 360 THEN Upto(0, rightAngle - 360) ELSE <<>>
    IN  below \o above \o Upto(Max(leftAngle, 0), Min(360, rightAngle))

\* The measure counts in the average: it is there, and neither its distance
\* nor its quality is zero.
Usable(measure) ==
    measure.present /\ measure.distance # 0 /\ measure.quality # 0

\* The loop over angles: totalDistance and count after it.  The loop passes
\* over a nil measure, so AverageOf hands it the angles whose slot is filled.
RECURSIVE Accumulate(_, _)
Accumulate(measures, angles) ==
    IF angles = <<>> THEN [totalDistance |-> 0, count |-> 0]
    ELSE LET rest    == Accumulate(measures, Tail(angles))
             measure == MeasureAt(measures, Head(angles))
         IN  IF Usable(measure)
             THEN [totalDistance |-> rest.totalDistance + measure.distance,
                   count         |-> rest.count + 1]
             ELSE rest

\* GetAverageDistanceFromAngle with width above 1: the reads of measures
\* over angles, which panic at the first index outside the array, and the
\* division.
AverageOf(measures, angles) ==
    LET outside == {i \in 1..Len(angles) : angles[i] \notin Slots}
    IN  IF outside # {}
        THEN Panic(SubSeq(angles, 1, CHOOSE i \in outside :
                                        \A j \in outside : i <= j))
        ELSE LET NotNil(angle) == MeasureAt(measures, angle).present
                 acc == Accumulate(measures, SelectSeq(angles, NotNil))
             IN  Return(Quotient(acc.totalDistance, acc.count), "nil", angles)

GetAverageDistanceFromAngle(measures, middleAngle, width) ==
    IF CheckWidth(width) # "nil" THEN Return(Float(0), CheckWidth(width), <<>>)
    ELSE IF width = 1 THEN SingleAngle(measures, middleAngle)
    ELSE AverageOf(measures, WindowAngles(middleAngle, width))

\* The CardinalDirection values; "Nil" is CardinalDirectionNil.
CardinalDirections ==
    {"North", "West", "East", "South", "Northwest", "Northeast", "Southwest",
     "Southeast", "WestNorthwest", "NorthNorthwest", "EastNortheast",
     "NorthNortheast", "WestSouthwest", "EastSoutheast", "SouthSouthwest",
     "SouthSoutheast"}

\* CardinalDirectionAngles, in half degrees.
CardinalDirectionAngles ==
    [r \in CardinalDirections |->
        CASE r = "North"          -> 0
          [] r = "NorthNortheast" -> 45
          [] r = "Northeast"      -> 90
          [] r = "EastNortheast"  -> 135
          [] r = "East"           -> 180
          [] r = "EastSoutheast"  -> 225
          [] r = "Southeast"      -> 270
          [] r = "SouthSoutheast" -> 315
          [] r = "South"          -> 360
          [] r = "SouthSouthwest" -> 405
          [] r = "Southwest"      -> 450
          [] r = "WestSouthwest"  -> 495
          [] r = "West"           -> 540
          [] r = "WestNorthwest"  -> 585
          [] r = "Northwest"      -> 630
          [] r = "NorthNorthwest" -> 675]

\* CardinalDirection.Angle: the map's zero value for a key it lacks.
Angle(r) ==
    IF r \in DOMAIN CardinalDirectionAngles THEN CardinalDirectionAngles[r]
    ELSE 0

\* math.Floor and math.Ceil of an angle.
Floor(angle) == Deg(angle \div Deg(1))

Ceil(angle) == Deg(-((-angle) \div Deg(1)))

\* The rounding without the test on 180: math.Floor for every direction.
DirectionMiddleAngleFloor(direction) == GoInt(Floor(Angle(direction)))

\* The rounding without the test on 180: math.Ceil for every direction.
DirectionMiddleAngleCeil(direction) == GoInt(Ceil(Angle(direction)))

\* GetAverageDistanceFromDirection: the middle angle it passes on.
DirectionMiddleAngle(direction) ==
    LET directionAngle == Angle(direction)
    IN  GoInt(IF directionAngle >= Deg(180) THEN Ceil(directionAngle)
              ELSE Floor(directionAngle))

GetAverageDistanceFromDirection(measures, width, direction) ==
    GetAverageDistanceFromAngle(measures, DirectionMiddleAngle(direction),
                                width)

\* What GetAverageDistancesFromDirections ends with: the map it returns
\* (isNil: the nil map) and the error, or a run-time panic.
ReturnMap(isNil, avgDistances, err) ==
    [outcome |-> "return", isNil |-> isNil, avgDistances |-> avgDistances,
     err |-> err]

\* make(map[CardinalDirection]float64)
EmptyMap == [r \in {} |-> Float(0)]

\* avgDistances after avgDistances[direction] = avgDistance.
WithEntry(avgDistances, direction, avgDistance) ==
    [r \in (DOMAIN avgDistances) \cup {direction} |->
        IF r = direction THEN avgDistance ELSE avgDistances[r]]

\* The loop of GetAverageDistancesFromDirections over the directions not
\* yet handled, avgDistances holding the entries of those handled.  A panic
\* of GetAverageDistanceFromDirection ends the call: nothing is returned.
RECURSIVE DirectionsLoop(_, _, _, _)
DirectionsLoop(measures, width, directions, avgDistances) ==
    IF directions = <<>>
    THEN ReturnMap(FALSE, avgDistances, "nil")
    ELSE LET r == GetAverageDistanceFromDirection(measures, width,
                                                  Head(directions))
         IN  IF r.outcome = "panic"
             THEN [outcome |-> "panic", isNil |-> TRUE,
                   avgDistances |-> EmptyMap, err |-> r.err]
             ELSE IF r.err # "nil"
             THEN ReturnMap(TRUE, EmptyMap, r.err)
             ELSE DirectionsLoop(measures, width, Tail(directions),
                                 WithEntry(avgDistances, Head(directions),
                                           r.val))

GetAverageDistancesFromDirections(measures, width, directions) ==
    DirectionsLoop(measures, width, directions, EmptyMap)


VARIABLES
    isUpsideDown,      \* DefaultHandler.isUpsideDown
    angleAdjustment,   \* DefaultHandler.angleAdjustment
    maxDistanceLimit,  \* DefaultHandler.maxDistanceLimit
    handlerMutex,      \* DefaultHandler.handlerMutex: 0, or the caller holding it
    isRunning,         \* DefaultHandler.isRunning
    measures,          \* DefaultHandler.measures
    stdoutLinesRead,   \* DefaultHandler.stdoutLinesRead
    rwWriter,          \* measuresMutex: 0, or the caller whose stdout task holds Lock
    rwReaders,         \* measuresMutex: the queriers holding RLock
    pc,                \* where each caller is in Run
    result,            \* the value Run's return statement has fixed, "none" before it
    ctxDone,           \* whether the ctx given to the call is cancelled
    stopFnCalled,      \* whether the stopFn given to the call was invoked
    proc,              \* the call's ultra_simple process: none, running, exited
    stdoutPc,          \* the call's stdout task: none, scan, lock, write, done
    stderrPc,          \* the call's stderr task: none, scan, done
    pending,           \* the Measure the stdout task is about to store
    groupErr,       \* the errgroup's first error, "nil" for none
    taskFailed,        \* whether a stream task ended with an error other than ctx.Err()
    events,            \* the shutdown steps runToWrap has taken, in order
    cancelledInDrain,  \* whether ctx was cancelled while Run was in g.Wait
    qpc,               \* where each querier is in GetMeasures: idle, copy, unlock
    qpos,              \* the slots copied so far: 0..qpos-1
    snap,              \* measuresCopy
    seen,              \* every value h.measures had since the call took RLock
    panicked,          \* the program has crashed on an unrecovered panic
    mPc,               \* function check: "in" before the function is applied
    mIn,               \* function check: the arguments
    mOut               \* function check: what the function returned

hvars ==
    <<isUpsideDown, angleAdjustment, maxDistanceLimit, handlerMutex, isRunning,
      measures, stdoutLinesRead, rwWriter, rwReaders, pc, result, ctxDone,
      stopFnCalled, proc, stdoutPc, stderrPc, pending, groupErr, taskFailed,
      events, cancelledInDrain, qpc, qpos, snap, seen, panicked>>

mvars == <<mPc, mIn, mOut>>

vars == <<hvars, mvars>>

\* The state NewDefaultHandler leaves, before any call.
HandlerInit ==
    /\ maxDistanceLimit = 1000
    /\ handlerMutex = 0
    /\ isRunning = FALSE
    /\ measures = EmptyMeasures
    /\ stdoutLinesRead = 0
    /\ rwWriter = 0
    /\ rwReaders = {}
    /\ pc = [c \in Callers |-> "idle"]
    /\ result = [c \in Callers |-> "none"]
    /\ ctxDone = [c \in Callers |-> FALSE]
    /\ stopFnCalled = [c \in Callers |-> FALSE]
    /\ proc = [c \in Callers |-> "none"]
    /\ stdoutPc = [c \in Callers |-> "none"]
    /\ stderrPc = [c \in Callers |-> "none"]
    /\ pending = [c \in Callers |-> NilMeasure]
    /\ groupErr = [c \in Callers |-> "nil"]
    /\ taskFailed = [c \in Callers |-> FALSE]
    /\ events = [c \in Callers |-> <<>>]
    /\ cancelledInDrain = [c \in Callers |-> FALSE]
    /\ qpc = [q \in Queriers |-> "idle"]
    /\ qpos = [q \in Queriers |-> 0]
    /\ snap = [q \in Queriers |-> EmptyMeasures]
    /\ seen = [q \in Queriers |-> {}]
    /\ panicked = FALSE

\* The Measure check at rest.
MeasureIdle ==
    /\ mPc = "idle"
    /\ mIn = [angle |-> 0, distance |-> 0, quality |-> 0, hasSyncBit |-> FALSE,
              isUpsideDown |-> FALSE, angleAdjustment |-> 0]
    /\ mOut = [err |-> "nil", m |-> NilMeasure]

Init ==
    /\ \E cfg \in HandlerConfigs :
          /\ isUpsideDown = cfg[1]
          /\ angleAdjustment = cfg[2]
    /\ HandlerInit
    /\ MeasureIdle


(***************************************************************************)
(* Helpers of the actions                                                  *)
(***************************************************************************)
\* The caller is between h.isRunning.Store(true) and the deferred
\* h.isRunning.Store(false).
InRun(c) ==
    pc[c] \in {"producer", "reset", "launch", "wait", "closeStdout",
               "closeStderr", "signal", "sleep", "kill", "deferLock",
               "deferStore"}

\* Run has executed a return statement: result[c] is fixed, and what is
\* left is the deferred function.
Returning(c) == pc[c] \in {"deferLock", "deferStore"}

\* h.measures becomes m: every GetMeasures under way has now seen m.
MeasuresBecome(m) ==
    /\ measures' = m
    /\ seen' = [q \in Queriers |->
                  IF qpc[q] = "copy" THEN seen[q] \cup {m} ELSE seen[q]]

\* A return that does not run the deferred function.
ReturnViaWithoutDefer(c, err) ==
    /\ result' = result
    /\ pc' = [pc EXCEPT ![c] = "idle"]

\* return err from Run or runToWrap: the deferred function runs next.
ReturnVia(c, err) ==
    /\ result' = [result EXCEPT ![c] = err]
    /\ pc' = [pc EXCEPT ![c] = "deferLock"]

\* goconcurrentlogger.StopContextAndLogOnError around a stream task that
\* ended with err: stopFn, which stops the context, is invoked on an error.
\* callStop is whether it is invoked.
StopContextAndLogOnError(c, err, callStop) ==
    /\ callStop \in (IF err = "nil" THEN {FALSE}
                     ELSE IF err = "context canceled" THEN BOOLEAN
                     ELSE {TRUE})
    /\ stopFnCalled' = [stopFnCalled EXCEPT ![c] = @ \/ callStop]
    /\ ctxDone' = [ctxDone EXCEPT ![c] = @ \/ callStop]
    /\ cancelledInDrain' =
          [cancelledInDrain EXCEPT ![c] = @ \/ (callStop /\ pc[c] = "wait")]

\* errgroup.Group: the first non-nil error a task returns is the one
\* g.Wait returns.
GroupRecord(c, err) ==
    /\ groupErr' = IF err # "nil" /\ groupErr[c] = "nil"
                   THEN [groupErr EXCEPT ![c] = err]
                   ELSE groupErr
    /\ taskFailed' =
          [taskFailed EXCEPT ![c] = @ \/ err \notin {"nil", "context canceled"}]

(***************************************************************************)
(* Run                                                                     *)
(***************************************************************************)
\* A goroutine calls h.Run(ctx, stopFn) with a context that is not done.
RunCall(c) ==
    /\ ~panicked
    /\ pc[c] = "idle"
    /\ pc' = [pc EXCEPT ![c] = "lock"]
    /\ UNCHANGED <<mvars, isUpsideDown, angleAdjustment, maxDistanceLimit, handlerMutex,
                   isRunning, measures, stdoutLinesRead, rwWriter, rwReaders,
                   result, ctxDone, stopFnCalled, proc, stdoutPc, stderrPc, pending, groupErr, taskFailed, events, cancelledInDrain, qpc, qpos, snap,
                   seen, panicked>>

\* Run without h.handlerMutex.Lock(): the call goes on to the check whether
\* or not another call holds the mutex.
RunLockWithoutMutex(c) ==
    /\ ~panicked
    /\ pc[c] = "lock"
    /\ handlerMutex' = c
    /\ pc' = [pc EXCEPT ![c] = "check"]
    /\ UNCHANGED <<mvars, isUpsideDown, angleAdjustment, maxDistanceLimit, isRunning,
                   measures, stdoutLinesRead, rwWriter, rwReaders, result,
                   ctxDone, stopFnCalled, proc, stdoutPc, stderrPc, pending,
                   groupErr, taskFailed, events, cancelledInDrain, qpc, qpos,
                   snap, seen, panicked>>

\* h.handlerMutex.Lock() at the head of Run.
RunLock(c) ==
    /\ ~panicked
    /\ pc[c] = "lock"
    /\ handlerMutex = 0
    /\ handlerMutex' = c
    /\ pc' = [pc EXCEPT ![c] = "check"]
    /\ UNCHANGED <<mvars, isUpsideDown, angleAdjustment, maxDistanceLimit, isRunning,
                   measures, stdoutLinesRead, rwWriter, rwReaders, result,
                   ctxDone, stopFnCalled, proc, stdoutPc, stderrPc, pending, groupErr, taskFailed, events, cancelledInDrain, qpc, qpos, snap,
                   seen, panicked>>

\* if h.IsRunning(): the branch Run takes with the mutex held.  The defer
\* that resets isRunning is registered only on the branch that goes on.
RunCheck(c) ==
    /\ ~panicked
    /\ pc[c] = "check"
    /\ pc' = [pc EXCEPT ![c] = IF isRunning THEN "reject" ELSE "set"]
    /\ UNCHANGED <<mvars, isUpsideDown, angleAdjustment, maxDistanceLimit, handlerMutex,
                   isRunning, measures, stdoutLinesRead, rwWriter, rwReaders,
                   result, ctxDone, stopFnCalled, proc, stdoutPc, stderrPc,
                   pending, groupErr, taskFailed, events, cancelledInDrain, qpc,
                   qpos, snap, seen, panicked>>

\* Run with the defer registered before the check: the rejected call
\* stores false in isRunning on its way out.
RunRejectRunsDefer(c) ==
    /\ ~panicked
    /\ pc[c] = "reject"
    /\ handlerMutex' = 0
    /\ isRunning' = FALSE
    /\ pc' = [pc EXCEPT ![c] = "idle"]
    /\ UNCHANGED <<mvars, isUpsideDown, angleAdjustment, maxDistanceLimit,
                   measures, stdoutLinesRead, rwWriter, rwReaders, result,
                   ctxDone, stopFnCalled, proc, stdoutPc, stderrPc, pending,
                   groupErr, taskFailed, events, cancelledInDrain, qpc, qpos,
                   snap, seen, panicked>>

\* h.handlerMutex.Unlock(); return ErrHandlerAlreadyRunning
RunReject(c) ==
    /\ ~panicked
    /\ pc[c] = "reject"
    /\ handlerMutex' = 0
    /\ pc' = [pc EXCEPT ![c] = "idle"]
    /\ UNCHANGED <<mvars, isUpsideDown, angleAdjustment, maxDistanceLimit, isRunning,
                   measures, stdoutLinesRead, rwWriter, rwReaders, result,
                   ctxDone, stopFnCalled, proc, stdoutPc, stderrPc, pending, groupErr, taskFailed, events, cancelledInDrain, qpc, qpos, snap,
                   seen, panicked>>

\* h.isRunning.Store(true); h.handlerMutex.Unlock()
RunSet(c) ==
    /\ ~panicked
    /\ pc[c] = "set"
    /\ isRunning' = TRUE
    /\ handlerMutex' = 0
    /\ pc' = [pc EXCEPT ![c] = "producer"]
    /\ UNCHANGED <<mvars, isUpsideDown, angleAdjustment, maxDistanceLimit, measures,
                   stdoutLinesRead, rwWriter, rwReaders, result, ctxDone,
                   stopFnCalled, proc, stdoutPc, stderrPc, pending,
                   groupErr, taskFailed, events, cancelledInDrain, qpc, qpos, snap, seen,
                   panicked>>

\* h.logger.NewProducer(HandlerLoggerProducerTag), which may fail.
RunNewProducer(c, ok) ==
    /\ ~panicked
    /\ pc[c] = "producer"
    /\ IF ok
       THEN pc' = [pc EXCEPT ![c] = "reset"] /\ UNCHANGED result
       ELSE ReturnVia(c, "failed to create handler logger producer")
    /\ UNCHANGED <<mvars, isUpsideDown, angleAdjustment, maxDistanceLimit, handlerMutex,
                   isRunning, measures, stdoutLinesRead, rwWriter, rwReaders,
                   ctxDone, stopFnCalled, proc, stdoutPc, stderrPc, pending, groupErr, taskFailed, events, cancelledInDrain, qpc, qpos, snap,
                   seen, panicked>>

\* runToWrap without h.stdoutLinesRead = 0: the counter goes on from the
\* lines of the runs before.
RunResetKeepsCounter(c) ==
    /\ ~panicked
    /\ pc[c] = "reset"
    /\ MeasuresBecome(EmptyMeasures)
    /\ pc' = [pc EXCEPT ![c] = "launch"]
    /\ UNCHANGED <<mvars, isUpsideDown, angleAdjustment, maxDistanceLimit,
                   handlerMutex, isRunning, stdoutLinesRead, rwWriter,
                   rwReaders, result, ctxDone, stopFnCalled, proc, stdoutPc,
                   stderrPc, pending, groupErr, taskFailed, events,
                   cancelledInDrain, qpc, qpos, snap, panicked>>

\* runToWrap: h.measures = [360]*Measure{}; h.stdoutLinesRead = 0.  No lock
\* is taken.
RunReset(c) ==
    /\ ~panicked
    /\ pc[c] = "reset"
    /\ MeasuresBecome(EmptyMeasures)
    /\ stdoutLinesRead' = 0
    /\ pc' = [pc EXCEPT ![c] = "launch"]
    /\ UNCHANGED <<mvars, isUpsideDown, angleAdjustment, maxDistanceLimit, handlerMutex,
                   isRunning, rwWriter, rwReaders, result, ctxDone, stopFnCalled,
                   proc, stdoutPc, stderrPc, pending, groupErr, taskFailed,
                   events, cancelledInDrain, qpc, qpos, snap, panicked>>

\* What os.Stat, cmd.StdoutPipe, cmd.StderrPipe and cmd.Start may do.
LaunchOutcomes ==
    {"ok", "ultra simple executable not found", "stdout pipe error",
     "stderr pipe error", "start command error"}

\* runToWrap: the executable check, the two pipes, cmd.Start and the two
\* g.Go calls.
RunLaunch(c, outcome) ==
    /\ ~panicked
    /\ pc[c] = "launch"
    /\ IF outcome = "ok"
       THEN /\ proc' = [proc EXCEPT ![c] = "running"]
            /\ stdoutPc' = [stdoutPc EXCEPT ![c] = "scan"]
            /\ stderrPc' = [stderrPc EXCEPT ![c] = "scan"]
            /\ pc' = [pc EXCEPT ![c] = "wait"]
            /\ UNCHANGED result
       ELSE /\ ReturnVia(c, outcome)
            /\ UNCHANGED <<proc, stdoutPc, stderrPc>>
    /\ UNCHANGED <<mvars, isUpsideDown, angleAdjustment, maxDistanceLimit, handlerMutex,
                   isRunning, measures, stdoutLinesRead, rwWriter, rwReaders,
                   ctxDone, stopFnCalled, pending, groupErr, taskFailed, events,
                   cancelledInDrain, qpc, qpos, snap, seen, panicked>>

\* g.Wait whose error is returned whatever it is, context.Canceled too.
RunWaitReturnsCanceled(c) ==
    /\ ~panicked
    /\ pc[c] = "wait"
    /\ stdoutPc[c] = "done"
    /\ stderrPc[c] = "done"
    /\ IF groupErr[c] # "nil"
       THEN ReturnVia(c, groupErr[c])
       ELSE pc' = [pc EXCEPT ![c] = "closeStdout"] /\ UNCHANGED result
    /\ UNCHANGED <<mvars, isUpsideDown, angleAdjustment, maxDistanceLimit,
                   handlerMutex, isRunning, measures, stdoutLinesRead, rwWriter,
                   rwReaders, ctxDone, stopFnCalled, proc, stdoutPc, stderrPc,
                   pending, groupErr, taskFailed, events, cancelledInDrain, qpc,
                   qpos, snap, seen, panicked>>

\* err = g.Wait(): both tasks have ended; an error other than
\* context.Canceled is returned at once, anything else goes on to the
\* shutdown.
RunWait(c) ==
    /\ ~panicked
    /\ pc[c] = "wait"
    /\ stdoutPc[c] = "done"
    /\ stderrPc[c] = "done"
    /\ IF groupErr[c] # "nil" /\ groupErr[c] # "context canceled"
       THEN ReturnVia(c, groupErr[c])
       ELSE pc' = [pc EXCEPT ![c] = "closeStdout"] /\ UNCHANGED result
    /\ UNCHANGED <<mvars, isUpsideDown, angleAdjustment, maxDistanceLimit, handlerMutex,
                   isRunning, measures, stdoutLinesRead, rwWriter, rwReaders,
                   ctxDone, stopFnCalled, proc, stdoutPc, stderrPc, pending, groupErr, taskFailed, events, cancelledInDrain, qpc, qpos, snap,
                   seen, panicked>>

\* stdout.Close()
RunCloseStdout(c, ok) ==
    /\ ~panicked
    /\ pc[c] = "closeStdout"
    /\ IF ok
       THEN /\ events' = [events EXCEPT ![c] = Append(@, "close stdout")]
            /\ pc' = [pc EXCEPT ![c] = "closeStderr"]
            /\ UNCHANGED result
       ELSE /\ ReturnVia(c, "stdout close error")
            /\ UNCHANGED events
    /\ UNCHANGED <<mvars, isUpsideDown, angleAdjustment, maxDistanceLimit, handlerMutex,
                   isRunning, measures, stdoutLinesRead, rwWriter, rwReaders,
                   ctxDone, stopFnCalled, proc, stdoutPc, stderrPc, pending, groupErr, taskFailed, cancelledInDrain, qpc, qpos, snap, seen,
                   panicked>>

\* stderr.Close()
RunCloseStderr(c, ok) ==
    /\ ~panicked
    /\ pc[c] = "closeStderr"
    /\ IF ok
       THEN /\ events' = [events EXCEPT ![c] = Append(@, "close stderr")]
            /\ pc' = [pc EXCEPT ![c] = "signal"]
            /\ UNCHANGED result
       ELSE /\ ReturnVia(c, "stderr close error")
            /\ UNCHANGED events
    /\ UNCHANGED <<mvars, isUpsideDown, angleAdjustment, maxDistanceLimit, handlerMutex,
                   isRunning, measures, stdoutLinesRead, rwWriter, rwReaders,
                   ctxDone, stopFnCalled, proc, stdoutPc, stderrPc, pending, groupErr, taskFailed, cancelledInDrain, qpc, qpos, snap, seen,
                   panicked>>

\* _ = cmd.Process.Signal(os.Interrupt)
RunSignal(c) ==
    /\ ~panicked
    /\ pc[c] = "signal"
    /\ events' = [events EXCEPT ![c] = Append(@, "interrupt")]
    /\ pc' = [pc EXCEPT ![c] = "sleep"]
    /\ UNCHANGED <<mvars, isUpsideDown, angleAdjustment, maxDistanceLimit, handlerMutex,
                   isRunning, measures, stdoutLinesRead, rwWriter, rwReaders,
                   result, ctxDone, stopFnCalled, proc, stdoutPc, stderrPc,
                   pending, groupErr, taskFailed, cancelledInDrain, qpc, qpos,
                   snap, seen, panicked>>

\* time.Sleep(CloseTimeout)
RunSleep(c) ==
    /\ ~panicked
    /\ pc[c] = "sleep"
    /\ events' = [events EXCEPT ![c] = Append(@, "grace period")]
    /\ pc' = [pc EXCEPT ![c] = "kill"]
    /\ UNCHANGED <<mvars, isUpsideDown, angleAdjustment, maxDistanceLimit, handlerMutex,
                   isRunning, measures, stdoutLinesRead, rwWriter, rwReaders,
                   result, ctxDone, stopFnCalled, proc, stdoutPc, stderrPc,
                   pending, groupErr, taskFailed, cancelledInDrain, qpc, qpos,
                   snap, seen, panicked>>

\* if cmd.ProcessState == nil || !cmd.ProcessState.Exited() { Kill };
\* return nil.  cmd.Wait is never called, so cmd.ProcessState is nil and
\* Kill is always sent; it ends a process that is still running.
RunKill(c) ==
    /\ ~panicked
    /\ pc[c] = "kill"
    /\ events' = [events EXCEPT ![c] = Append(@, "kill")]
    /\ proc' = [proc EXCEPT ![c] = "exited"]
    /\ ReturnVia(c, "nil")
    /\ UNCHANGED <<mvars, isUpsideDown, angleAdjustment, maxDistanceLimit, handlerMutex,
                   isRunning, measures, stdoutLinesRead, rwWriter, rwReaders,
                   ctxDone, stopFnCalled, stdoutPc, stderrPc, pending,
                   groupErr, taskFailed, cancelledInDrain, qpc, qpos, snap, seen, panicked>>

\* The deferred function of Run: h.handlerMutex.Lock()
RunDeferLock(c) ==
    /\ ~panicked
    /\ pc[c] = "deferLock"
    /\ handlerMutex = 0
    /\ handlerMutex' = c
    /\ pc' = [pc EXCEPT ![c] = "deferStore"]
    /\ UNCHANGED <<mvars, isUpsideDown, angleAdjustment, maxDistanceLimit, isRunning,
                   measures, stdoutLinesRead, rwWriter, rwReaders, result,
                   ctxDone, stopFnCalled, proc, stdoutPc, stderrPc, pending, groupErr, taskFailed, events, cancelledInDrain, qpc, qpos, snap,
                   seen, panicked>>

\* The deferred function of Run clearing the buffer as well:
\* h.measures = [360]*Measure{} on the way out.
RunDeferStoreClears(c) ==
    /\ ~panicked
    /\ pc[c] = "deferStore"
    /\ MeasuresBecome(EmptyMeasures)
    /\ isRunning' = FALSE
    /\ handlerMutex' = 0
    /\ pc' = [pc EXCEPT ![c] = "idle"]
    /\ result' = [result EXCEPT ![c] = "none"]
    /\ ctxDone' = [ctxDone EXCEPT ![c] = FALSE]
    /\ stopFnCalled' = [stopFnCalled EXCEPT ![c] = FALSE]
    /\ cancelledInDrain' = [cancelledInDrain EXCEPT ![c] = FALSE]
    /\ proc' = [proc EXCEPT ![c] = "none"]
    /\ stdoutPc' = [stdoutPc EXCEPT ![c] = "none"]
    /\ stderrPc' = [stderrPc EXCEPT ![c] = "none"]
    /\ pending' = [pending EXCEPT ![c] = NilMeasure]
    /\ groupErr' = [groupErr EXCEPT ![c] = "nil"]
    /\ taskFailed' = [taskFailed EXCEPT ![c] = FALSE]
    /\ events' = [events EXCEPT ![c] = <<>>]
    /\ UNCHANGED <<mvars, isUpsideDown, angleAdjustment, maxDistanceLimit,
                   stdoutLinesRead, rwWriter, rwReaders, qpc, qpos, snap,
                   panicked>>

\* The deferred function of Run: h.isRunning.Store(false); Unlock.  Run
\* returns result[c], and the call's locals (ctx, stopFn, cmd, the pipes,
\* the errgroup) go out of scope.
RunDeferStore(c) ==
    /\ ~panicked
    /\ pc[c] = "deferStore"
    /\ isRunning' = FALSE
    /\ handlerMutex' = 0
    /\ pc' = [pc EXCEPT ![c] = "idle"]
    /\ result' = [result EXCEPT ![c] = "none"]
    /\ ctxDone' = [ctxDone EXCEPT ![c] = FALSE]
    /\ stopFnCalled' = [stopFnCalled EXCEPT ![c] = FALSE]
    /\ cancelledInDrain' = [cancelledInDrain EXCEPT ![c] = FALSE]
    /\ proc' = [proc EXCEPT ![c] = "none"]
    /\ stdoutPc' = [stdoutPc EXCEPT ![c] = "none"]
    /\ stderrPc' = [stderrPc EXCEPT ![c] = "none"]
    /\ pending' = [pending EXCEPT ![c] = NilMeasure]
    /\ groupErr' = [groupErr EXCEPT ![c] = "nil"]
    /\ taskFailed' = [taskFailed EXCEPT ![c] = FALSE]
    /\ events' = [events EXCEPT ![c] = <<>>]
    /\ UNCHANGED <<mvars, isUpsideDown, angleAdjustment, maxDistanceLimit, measures,
                   stdoutLinesRead, rwWriter, rwReaders, qpc, qpos, snap, seen,
                   panicked>>

(***************************************************************************)
(* The two stream tasks: scanLines with handleStdoutLine and               *)
(* handleStderrLine, each wrapped by StopContextAndLogOnError and run by   *)
(* the errgroup.                                                           *)
(***************************************************************************)
\* The stdout task ends with err.
StdoutEnd(c, err, callStop) ==
    /\ stdoutPc' = [stdoutPc EXCEPT ![c] = "done"]
    /\ StopContextAndLogOnError(c, err, callStop)
    /\ GroupRecord(c, err)

\* The stderr task ends with err.
StderrEnd(c, err, callStop) ==
    /\ stderrPc' = [stderrPc EXCEPT ![c] = "done"]
    /\ StopContextAndLogOnError(c, err, callStop)
    /\ GroupRecord(c, err)

\* handleStdoutLine whose distance check refuses maxDistanceLimit itself:
\* measure.GetDistance() >= h.maxDistanceLimit.
handleStdoutLineExclusiveLimit(c, line) ==
    LET r == NewMeasureFromString(line, isUpsideDown, angleAdjustment)
    IN  /\ stdoutLinesRead' = stdoutLinesRead + 1
        /\ IF \/ stdoutLinesRead + 1 <= IgnoreFirstStdoutMessages
              \/ r.err # "nil"
              \/ r.m.distance < 0
              \/ r.m.distance >= maxDistanceLimit
           THEN UNCHANGED <<stdoutPc, pending>>
           ELSE /\ pending' = [pending EXCEPT ![c] = r.m]
                /\ stdoutPc' = [stdoutPc EXCEPT ![c] = "lock"]

\* handleStdoutLine up to the lock: count the line, skip the first
\* IgnoreFirstStdoutMessages, parse, drop a line that does not parse or
\* whose distance is out of range; otherwise go on to store the Measure.
handleStdoutLine(c, line) ==
    LET r == NewMeasureFromString(line, isUpsideDown, angleAdjustment)
    IN  /\ stdoutLinesRead' = stdoutLinesRead + 1
        /\ IF \/ stdoutLinesRead + 1 <= IgnoreFirstStdoutMessages
              \/ r.err # "nil"
              \/ r.m.distance < 0
              \/ r.m.distance > maxDistanceLimit
           THEN UNCHANGED <<stdoutPc, pending>>
           ELSE /\ pending' = [pending EXCEPT ![c] = r.m]
                /\ stdoutPc' = [stdoutPc EXCEPT ![c] = "lock"]

\* scanLines on stdout: sc.Scan() has a line.  A cancelled context ends the
\* task with ctx.Err() before the line is handled.
StdoutLine(c, line, callStop) ==
    /\ ~panicked
    /\ stdoutPc[c] = "scan"
    /\ proc[c] = "running"
    /\ IF ctxDone[c]
       THEN /\ StdoutEnd(c, "context canceled", callStop)
            /\ UNCHANGED <<stdoutLinesRead, pending>>
       ELSE /\ callStop = FALSE
            /\ stdoutLinesRead < MaxStdoutLines
            /\ handleStdoutLine(c, line)
            /\ UNCHANGED <<ctxDone, stopFnCalled, cancelledInDrain, groupErr, taskFailed>>
    /\ UNCHANGED <<mvars, isUpsideDown, angleAdjustment, maxDistanceLimit, handlerMutex,
                   isRunning, measures, rwWriter, rwReaders, pc, result, proc,
                   stderrPc, events, qpc, qpos, snap, seen,
                   panicked>>

\* handleStdoutLine without h.measuresMutex.Lock(): the store goes ahead
\* with the lock not held.
StdoutLockSkipped(c) ==
    /\ ~panicked
    /\ stdoutPc[c] = "lock"
    /\ stdoutPc' = [stdoutPc EXCEPT ![c] = "write"]
    /\ UNCHANGED <<mvars, isUpsideDown, angleAdjustment, maxDistanceLimit,
                   handlerMutex, isRunning, measures, stdoutLinesRead, rwWriter,
                   rwReaders, pc, result, ctxDone, stopFnCalled, proc, stderrPc,
                   pending, groupErr, taskFailed, events, cancelledInDrain, qpc,
                   qpos, snap, seen, panicked>>

\* handleStdoutLine: h.measuresMutex.Lock()
StdoutLock(c) ==
    /\ ~panicked
    /\ stdoutPc[c] = "lock"
    /\ rwWriter = 0
    /\ rwReaders = {}
    /\ rwWriter' = c
    /\ stdoutPc' = [stdoutPc EXCEPT ![c] = "write"]
    /\ UNCHANGED <<mvars, isUpsideDown, angleAdjustment, maxDistanceLimit, handlerMutex,
                   isRunning, measures, stdoutLinesRead, rwReaders, pc, result,
                   ctxDone, stopFnCalled, proc, stderrPc, pending,
                   groupErr, taskFailed, events, cancelledInDrain, qpc, qpos, snap, seen,
                   panicked>>

\* handleStdoutLine: angle := int(measure.GetAngle()) % 360;
\* h.measures[angle] = measure; h.measuresMutex.Unlock().  An index outside
\* the array is a run-time panic, which no one recovers.
StdoutStore(c) ==
    /\ ~panicked
    /\ stdoutPc[c] = "write"
    /\ LET angle == GoRem(GoInt(pending[c].angle), NumSlots)
       IN  IF angle \in Slots
           THEN /\ MeasuresBecome(WithMeasure(measures, angle, pending[c]))
                /\ rwWriter' = 0
                /\ stdoutPc' = [stdoutPc EXCEPT ![c] = "scan"]
                /\ UNCHANGED panicked
           ELSE /\ panicked' = TRUE
                /\ UNCHANGED <<measures, seen, rwWriter, stdoutPc>>
    /\ UNCHANGED <<mvars, isUpsideDown, angleAdjustment, maxDistanceLimit, handlerMutex,
                   isRunning, stdoutLinesRead, rwReaders, pc, result, ctxDone,
                   stopFnCalled, proc, stderrPc, pending, groupErr, taskFailed,
                   events, cancelledInDrain, qpc, qpos, snap>>

\* scanLines on stdout: sc.Scan() returns false.  ok: the stream ended;
\* otherwise sc.Err() is an error (a line over MaxSizeBuffer, a read error).
StdoutScanEnd(c, ok) ==
    /\ ~panicked
    /\ stdoutPc[c] = "scan"
    /\ StdoutEnd(c, IF ok THEN "nil" ELSE "scan error", ~ok)
    /\ UNCHANGED <<mvars, isUpsideDown, angleAdjustment, maxDistanceLimit, handlerMutex,
                   isRunning, measures, stdoutLinesRead, rwWriter, rwReaders, pc,
                   result, proc, stderrPc, pending, events, qpc,
                   qpos, snap, seen, panicked>>

\* scanLines on stderr: sc.Scan() has a line.  A cancelled context ends the
\* task with ctx.Err(); otherwise handleStderrLine logs the line as a
\* warning and changes nothing of the handler.
StderrLine(c, callStop) ==
    /\ ~panicked
    /\ stderrPc[c] = "scan"
    /\ proc[c] = "running"
    /\ IF ctxDone[c]
       THEN StderrEnd(c, "context canceled", callStop)
       ELSE /\ callStop = FALSE
            /\ UNCHANGED <<stderrPc, ctxDone, stopFnCalled, cancelledInDrain,
                           groupErr, taskFailed>>
    /\ UNCHANGED <<mvars, isUpsideDown, angleAdjustment, maxDistanceLimit, handlerMutex,
                   isRunning, measures, stdoutLinesRead, rwWriter, rwReaders, pc,
                   result, proc, stdoutPc, pending, events, qpc, qpos, snap, seen,
                   panicked>>

\* scanLines on stderr: sc.Scan() returns false.
StderrScanEnd(c, ok) ==
    /\ ~panicked
    /\ stderrPc[c] = "scan"
    /\ StderrEnd(c, IF ok THEN "nil" ELSE "scan error", ~ok)
    /\ UNCHANGED <<mvars, isUpsideDown, angleAdjustment, maxDistanceLimit, handlerMutex,
                   isRunning, measures, stdoutLinesRead, rwWriter, rwReaders, pc,
                   result, proc, stdoutPc, pending, events, qpc,
                   qpos, snap, seen, panicked>>

(***************************************************************************)
(* The context and the ultra_simple process                                *)
(***************************************************************************)
\* The owner of ctx cancels it while Run waits for the stream tasks.
CtxCancel(c) ==
    /\ ~panicked
    /\ pc[c] = "wait"
    /\ ~ctxDone[c]
    /\ ctxDone' = [ctxDone EXCEPT ![c] = TRUE]
    /\ cancelledInDrain' = [cancelledInDrain EXCEPT ![c] = TRUE]
    /\ UNCHANGED <<mvars, isUpsideDown, angleAdjustment, maxDistanceLimit, handlerMutex,
                   isRunning, measures, stdoutLinesRead, rwWriter, rwReaders, pc,
                   result, stopFnCalled, proc, stdoutPc, stderrPc, pending, groupErr, taskFailed, events, qpc, qpos, snap, seen, panicked>>

\* exec.CommandContext: once ctx is done, the goroutine cmd.Start left
\* behind kills the process.
CtxKill(c) ==
    /\ ~panicked
    /\ ctxDone[c]
    /\ proc[c] = "running"
    /\ proc' = [proc EXCEPT ![c] = "exited"]
    /\ UNCHANGED <<mvars, isUpsideDown, angleAdjustment, maxDistanceLimit, handlerMutex,
                   isRunning, measures, stdoutLinesRead, rwWriter, rwReaders, pc,
                   result, ctxDone, stopFnCalled, stdoutPc, stderrPc, pending, groupErr, taskFailed, events, cancelledInDrain, qpc, qpos, snap,
                   seen, panicked>>

\* The process exits by itself, or on the interrupt signal.
ProcExit(c) ==
    /\ ~panicked
    /\ proc[c] = "running"
    /\ pc[c] \in {"wait", "closeStdout", "closeStderr", "signal", "sleep", "kill"}
    /\ proc' = [proc EXCEPT ![c] = "exited"]
    /\ UNCHANGED <<mvars, isUpsideDown, angleAdjustment, maxDistanceLimit, handlerMutex,
                   isRunning, measures, stdoutLinesRead, rwWriter, rwReaders, pc,
                   result, ctxDone, stopFnCalled, stdoutPc, stderrPc, pending, groupErr, taskFailed, events, cancelledInDrain, qpc, qpos, snap,
                   seen, panicked>>

(***************************************************************************)
(* GetMeasures                                                             *)
(***************************************************************************)
\* h.measuresMutex.RLock(); measuresCopy := [360]*Measure{}
GetMeasuresRLock(q) ==
    /\ ~panicked
    /\ qpc[q] = "idle"
    /\ rwWriter = 0
    /\ rwReaders' = rwReaders \cup {q}
    /\ qpc' = [qpc EXCEPT ![q] = "copy"]
    /\ seen' = [seen EXCEPT ![q] = {measures}]
    /\ UNCHANGED <<mvars, isUpsideDown, angleAdjustment, maxDistanceLimit, handlerMutex,
                   isRunning, measures, stdoutLinesRead, rwWriter, pc, result,
                   ctxDone, stopFnCalled, proc, stdoutPc, stderrPc, pending, groupErr, taskFailed, events, cancelledInDrain, qpos, snap,
                   panicked>>

\* copy(measuresCopy[:], h.measures[:]) goes on from slot qpos up to slot
\* upTo - 1.
GetMeasuresCopy(q, upTo) ==
    /\ ~panicked
    /\ qpc[q] = "copy"
    /\ upTo > qpos[q]
    /\ snap' = [snap EXCEPT ![q] = WithCopied(snap[q], measures, qpos[q], upTo)]
    /\ qpos' = [qpos EXCEPT ![q] = upTo]
    /\ qpc' = [qpc EXCEPT ![q] = IF upTo = NumSlots THEN "unlock" ELSE "copy"]
    /\ UNCHANGED <<mvars, isUpsideDown, angleAdjustment, maxDistanceLimit, handlerMutex,
                   isRunning, measures, stdoutLinesRead, rwWriter, rwReaders, pc,
                   result, ctxDone, stopFnCalled, proc, stdoutPc, stderrPc,
                   pending, groupErr, taskFailed, events, cancelledInDrain, seen,
                   panicked>>

\* The deferred h.measuresMutex.RUnlock(); return &measuresCopy.  The copy
\* is the caller's from here on.
GetMeasuresReturn(q) ==
    /\ ~panicked
    /\ qpc[q] = "unlock"
    /\ rwReaders' = rwReaders \ {q}
    /\ qpc' = [qpc EXCEPT ![q] = "idle"]
    /\ qpos' = [qpos EXCEPT ![q] = 0]
    /\ snap' = [snap EXCEPT ![q] = EmptyMeasures]
    /\ seen' = [seen EXCEPT ![q] = {}]
    /\ UNCHANGED <<mvars, isUpsideDown, angleAdjustment, maxDistanceLimit, handlerMutex,
                   isRunning, measures, stdoutLinesRead, rwWriter, pc, result,
                   ctxDone, stopFnCalled, proc, stdoutPc, stderrPc, pending, groupErr, taskFailed, events, cancelledInDrain, panicked>>

(***************************************************************************)
(* The handler's specification                                             *)
(***************************************************************************)
\* Run up to the point where the call is accepted.
RunEnter(c) ==
    \/ RunCall(c)
    \/ RunLock(c)
    \/ RunCheck(c)
    \/ RunSet(c)

\* An accepted call, from the logger producer to the return.
RunBody(c) ==
    \/ \E ok \in BOOLEAN : RunNewProducer(c, ok)
    \/ RunReset(c)
    \/ \E outcome \in LaunchOutcomes : RunLaunch(c, outcome)
    \/ RunWait(c)
    \/ \E ok \in BOOLEAN : RunCloseStdout(c, ok)
    \/ \E ok \in BOOLEAN : RunCloseStderr(c, ok)
    \/ RunSignal(c)
    \/ RunSleep(c)
    \/ RunKill(c)
    \/ RunDeferLock(c)
    \/ RunDeferStore(c)

TaskStep(c) ==
    \/ \E line \in StdoutLines, callStop \in BOOLEAN : StdoutLine(c, line, callStop)
    \/ StdoutLock(c)
    \/ StdoutStore(c)
    \/ \E ok \in BOOLEAN : StdoutScanEnd(c, ok)
    \/ \E callStop \in BOOLEAN : StderrLine(c, callStop)
    \/ \E ok \in BOOLEAN : StderrScanEnd(c, ok)

EnvStep(c) ==
    \/ CtxCancel(c)
    \/ CtxKill(c)
    \/ ProcExit(c)

QueryStep(q) ==
    \/ GetMeasuresRLock(q)
    \/ \E upTo \in CopyCuts \cup {NumSlots} : GetMeasuresCopy(q, upTo)
    \/ GetMeasuresReturn(q)

\* The handler's life cycle: goroutines call Run, the stream tasks drain
\* the process's output, the context may be cancelled and the process may
\* end.  Every action is disabled once the program has panicked.
Next ==
    \/ \E c \in Callers : RunEnter(c)
    \/ \E c \in Callers : RunReject(c)
    \/ \E c \in Callers : RunBody(c)
    \/ \E c \in Callers : TaskStep(c)
    \/ \E c \in Callers : EnvStep(c)

Spec == Init /\ [][Next]_vars

\* Queries beside the handler: one goroutine calls Run, again and again,
\* its context is left alone and its process runs until Run shuts it down,
\* while other goroutines call GetMeasures.
NextSnapshot ==
    \/ RunEnter(1)
    \/ RunBody(1)
    \/ TaskStep(1)
    \/ \E q \in Queriers : QueryStep(q)

SpecSnapshot == Init /\ [][NextSnapshot]_vars

(***************************************************************************)
(* Ingestion: one goroutine calls Run, again and again, on a handler built *)
(* with any of IngestConfigs, and the process writes lines of IngestLines. *)
(***************************************************************************)
\* The <<isUpsideDown, angleAdjustment>> of the handler: upright and
\* inverted, no adjustment, a positive one, a negative one and one of half
\* a degree below zero.
IngestConfigs ==
    {<<FALSE, Deg(0)>>, <<TRUE, Deg(0)>>, <<TRUE, Deg(90)>>,
     <<FALSE, Deg(-90)>>, <<FALSE, -1>>}

\* The lines the process writes: two readings of angle 0, one of them
\* rotation-marked; readings of angle 45 with the distances 0,
\* maxDistanceLimit, maxDistanceLimit + 1 and -1; a line whose distance is
\* no number; a reading whose angle validateAngle refuses.
IngestLines ==
    { <<Tok("int", Deg(0)), Tok("int", 500), Tok("int", 10)>>,
      <<Tok("S", 0), Tok("int", Deg(0)), Tok("int", 600), Tok("int", 10)>>,
      <<Tok("int", Deg(45)), Tok("int", 0), Tok("int", 10)>>,
      <<Tok("int", Deg(45)), Tok("int", 1000), Tok("int", 10)>>,
      <<Tok("int", Deg(45)), Tok("int", 1001), Tok("int", 10)>>,
      <<Tok("int", Deg(45)), Tok("int", -1), Tok("int", 10)>>,
      <<Tok("int", Deg(90)), Tok("bad", 0), Tok("int", 10)>>,
      <<Tok("int", Deg(360)), Tok("int", 500), Tok("int", 10)>> }

InitIngest ==
    /\ \E cfg \in IngestConfigs :
          /\ isUpsideDown = cfg[1]
          /\ angleAdjustment = cfg[2]
    /\ HandlerInit
    /\ MeasureIdle

\* The two stream tasks, the stdout lines drawn from IngestLines.
IngestStep(c) ==
    \/ \E line \in IngestLines : StdoutLine(c, line, FALSE)
    \/ StdoutLock(c)
    \/ StdoutStore(c)
    \/ \E ok \in BOOLEAN : StdoutScanEnd(c, ok)
    \/ \E callStop \in BOOLEAN : StderrLine(c, callStop)
    \/ \E ok \in BOOLEAN : StderrScanEnd(c, ok)

NextIngest ==
    \/ RunEnter(1)
    \/ RunBody(1)
    \/ IngestStep(1)

SpecIngest == InitIngest /\ [][NextIngest]_vars

(***************************************************************************)
(* NewMeasure on its own: the arguments are drawn from MeasureInputs and   *)
(* the one action applies NewMeasure to them.  The handler is left as      *)
(* NewDefaultHandler built it.                                             *)
(***************************************************************************)
\* Raw angles: below zero, zero, half a degree, inside the turn, the last
\* half degree of a turn, one, two and three turns and beyond.
MeasureAngles ==
    {-Deg(1), 0, 1, Deg(90), Deg(355), Deg(360) - 1, Deg(360), Deg(450),
     Deg(720), Deg(725), Deg(1080)}

\* Angle adjustments, every one of magnitude below 360 degrees.
MeasureAdjustments == {-Deg(359), -Deg(10), 0, Deg(10), Deg(359)}

MeasureInputs ==
    [angle : MeasureAngles, distance : {500}, quality : {10},
     hasSyncBit : BOOLEAN, isUpsideDown : BOOLEAN,
     angleAdjustment : MeasureAdjustments]

InitMeasure ==
    /\ isUpsideDown = FALSE
    /\ angleAdjustment = Deg(0)
    /\ HandlerInit
    /\ mPc = "in"
    /\ mIn \in MeasureInputs
    /\ mOut = [err |-> "nil", m |-> NilMeasure]

\* m, err := NewMeasure(angle, distance, quality, hasSyncBit, isUpsideDown,
\* angleAdjustment)
MeasureApply ==
    /\ mPc = "in"
    /\ mPc' = "out"
    /\ mOut' = NewMeasure(mIn.angle, mIn.distance, mIn.quality, mIn.hasSyncBit,
                          mIn.isUpsideDown, mIn.angleAdjustment)
    /\ UNCHANGED <<hvars, mIn>>

NextMeasure == MeasureApply

SpecMeasure == InitMeasure /\ [][NextMeasure]_vars

(***************************************************************************)
(* NewMeasureFromString and Measure.String on their own: a line and the    *)
(* handler's orientation and adjustment are drawn from ParseInputs, the    *)
(* first action parses the line, the second writes the Measure with        *)
(* String and parses that text, upright and with no adjustment.            *)
(***************************************************************************)
\* The angle, distance and quality literals of the lines.
ParseAngles == {Tok("int", Deg(0)), Tok("frac", 1), Tok("int", Deg(90)),
                Tok("frac", Deg(360) - 1), Tok("int", Deg(360)),
                Tok("bad", 0)}

ParseDistances == {Tok("int", 0), Tok("frac", 500), Tok("int", 1200),
                   Tok("bad", 0)}

ParseQualities == {Tok("int", 0), Tok("int", 47), Tok("frac", 10)}

\* Lines with and without the sync bit character, a line that lacks a
\* field, a line with a field too many, the empty line, and a line whose
\* fields the AttributesSeparator joins.
ParseLines ==
    {DataLine(a, d, q) :
        a \in ParseAngles, d \in ParseDistances, q \in ParseQualities}
    \cup {SyncDataLine(a, d, q) :
        a \in ParseAngles, d \in ParseDistances, q \in ParseQualities}
    \cup {<<Tok("int", Deg(90)), Space, Tok("int", 500)>>,
          DataLine(Tok("int", Deg(90)), Tok("int", 500), Tok("int", 47))
              \o <<Space, Tok("int", 1)>>,
          <<>>,
          <<Tok("int", Deg(90)), AttributesSeparator, Tok("int", 500),
            AttributesSeparator, Tok("int", 47)>>}

ParseInputs ==
    [line : ParseLines, isUpsideDown : BOOLEAN,
     angleAdjustment : {Deg(0), Deg(10)}]

InitParse ==
    /\ isUpsideDown = FALSE
    /\ angleAdjustment = Deg(0)
    /\ HandlerInit
    /\ mPc = "in"
    /\ mIn \in ParseInputs
    /\ mOut = [err |-> "nil", m |-> NilMeasure]

\* measure, err := NewMeasureFromString(line, isUpsideDown, angleAdjustment)
ParseApply ==
    /\ mPc = "in"
    /\ mPc' = "parsed"
    /\ mOut' = NewMeasureFromString(Fields(mIn.line), mIn.isUpsideDown,
                                    mIn.angleAdjustment)
    /\ UNCHANGED <<hvars, mIn>>

\* again, err := NewMeasureFromString(measure.String(), false, 0)
ParseAgain ==
    /\ mPc = "parsed"
    /\ mOut.err = "nil"
    /\ mPc' = "reparsed"
    /\ mOut' = [err   |-> mOut.err,
                m     |-> mOut.m,
                text  |-> MeasureString(mOut.m),
                again |-> NewMeasureFromString(Fields(MeasureString(mOut.m)),
                                               FALSE, Deg(0))]
    /\ UNCHANGED <<hvars, mIn>>

NextParse == ParseApply \/ ParseAgain

SpecParse == InitParse /\ [][NextParse]_vars

(***************************************************************************)
(* The averaging functions on their own: a buffer, a width and a middle    *)
(* angle or a direction are drawn from AverageInputs; one action calls     *)
(* GetAverageDistanceFromAngle, the other GetAverageDistanceFromDirection. *)
(***************************************************************************)
\* The buffer whose filled slots are the <<slot, distance, quality>> of
\* readings.
BufferOf(readings) ==
    [i \in {t[1] : t \in readings} |->
        LET t == CHOOSE t \in readings : t[1] = i
        IN  Measure(Deg(i), t[2], t[3], FALSE)]

\* The empty buffer, a buffer filled at both ends of the array, a buffer
\* with a zero distance and a zero quality among usable slots, and a buffer
\* filled around the angles of some directions.
AverageBuffers ==
    {EmptyMeasures,
     BufferOf({<<0, 500, 10>>, <<1, 700, 10>>, <<358, 300, 5>>,
               <<359, 900, 10>>}),
     BufferOf({<<9, 100, 1>>, <<10, 0, 10>>, <<11, 600, 0>>, <<12, 300, 5>>}),
     BufferOf({<<22, 400, 10>>, <<23, 800, 10>>, <<157, 200, 10>>,
               <<158, 600, 10>>, <<180, 1000, 47>>, <<202, 250, 10>>,
               <<203, 750, 10>>, <<338, 50, 10>>})}

AverageMiddleAngles == {0, 1, 10, 11, 22, 157, 180, 358, 359}

AverageWidths ==
    {-3, -2, -1, 0, 1, 2, 3, 4, 5, 357, 358, 359, 360, 361, 362, 363}

AverageInputs ==
    [op : {"angle"}, measures : AverageBuffers,
     middleAngle : AverageMiddleAngles, width : AverageWidths]
    \cup [op : {"direction"}, measures : AverageBuffers,
          direction : CardinalDirections \cup {"Nil"}, width : AverageWidths]

InitAverage ==
    /\ isUpsideDown = FALSE
    /\ angleAdjustment = Deg(0)
    /\ HandlerInit
    /\ mPc = "in"
    /\ mIn \in AverageInputs
    /\ mOut = Return(Float(0), "nil", <<>>)

\* avg, err := GetAverageDistanceFromAngle(measures, middleAngle, width)
AverageFromAngle ==
    /\ mPc = "in"
    /\ mIn.op = "angle"
    /\ mPc' = "out"
    /\ mOut' = GetAverageDistanceFromAngle(mIn.measures, mIn.middleAngle,
                                           mIn.width)
    /\ UNCHANGED <<hvars, mIn>>

\* avg, err := GetAverageDistanceFromDirection(measures, width, direction)
AverageFromDirection ==
    /\ mPc = "in"
    /\ mIn.op = "direction"
    /\ mPc' = "out"
    /\ mOut' = GetAverageDistanceFromDirection(mIn.measures, mIn.width,
                                               mIn.direction)
    /\ UNCHANGED <<hvars, mIn>>

NextAverage == AverageFromAngle \/ AverageFromDirection

SpecAverage == InitAverage /\ [][NextAverage]_vars

(***************************************************************************)
(* GetAverageDistancesFromDirections on its own: a buffer, a width and a   *)
(* list of directions are drawn from DirectionsInputs.                     *)
(***************************************************************************)
\* The lists of directions: none, one, one given twice, several whose
\* angles lie on both sides of 180, and a list with CardinalDirectionNil.
DirectionLists ==
    {<<>>,
     <<"North">>,
     <<"East", "East">>,
     <<"NorthNortheast", "SouthSoutheast", "SouthSouthwest">>,
     <<"South", "NorthNorthwest", "South">>,
     <<"Nil", "West">>}

\* The widths: invalid ones of each kind, 1, windows that stay inside the
\* array for every direction, and windows that pass slot 359 for some.
DirectionsWidths == {-1, 0, 1, 2, 3, 5, 43, 45, 359, 361}

DirectionsInputs ==
    [op : {"directions"}, measures : AverageBuffers,
     directions : DirectionLists, width : DirectionsWidths]

InitDirections ==
    /\ isUpsideDown = FALSE
    /\ angleAdjustment = Deg(0)
    /\ HandlerInit
    /\ mPc = "in"
    /\ mIn \in DirectionsInputs
    /\ mOut = ReturnMap(TRUE, EmptyMap, "nil")

\* avgs, err := GetAverageDistancesFromDirections(measures, width, directions...)
AverageFromDirections ==
    /\ mPc = "in"
    /\ mIn.op = "directions"
    /\ mPc' = "out"
    /\ mOut' = GetAverageDistancesFromDirections(mIn.measures, mIn.width,
                                                 mIn.directions)
    /\ UNCHANGED <<hvars, mIn>>

NextDirections == AverageFromDirections

SpecDirections == InitDirections /\ [][NextDirections]_vars

(***************************************************************************)
(* Properties                                                              *)
(***************************************************************************)
\* The caller has passed the isRunning check of Run and has not returned.
Accepted(c) == pc[c] = "set" \/ InRun(c)

\* runToWrap started the process and the two stream tasks of the call.
Launched(c) == stdoutPc[c] # "none"

\* The steps of runToWrap after g.Wait, in the order of the source.
ShutdownSteps ==
    <<"close stdout", "close stderr", "interrupt", "grace period", "kill">>

\* C1: at most one call of Run is past the isRunning check at any time:
\* while one call is between its acceptance and its return, no other call
\* is accepted (it is on its way in, or on the branch that returns
\* ErrHandlerAlreadyRunning).
C1_OneRunAtATime ==
    \A c \in Callers, d \in Callers :
        (c # d /\ Accepted(c)) =>
            /\ ~Accepted(d)
            /\ pc[d] \in {"idle", "lock", "check", "reject"}

\* C1 happens: one call is draining the streams and another is on the
\* branch that returns ErrHandlerAlreadyRunning.
C1_Witness ==
    \E c \in Callers, d \in Callers :
        c # d /\ pc[c] = "wait" /\ pc[d] = "reject"

\* C2: the step by which a rejected call returns leaves the handler as it
\* was: isRunning is true before and after, and the measures, the line
\* counter, the process, the stream tasks and the context of the call in
\* progress are unchanged.
C2_RejectChangesNothing ==
    [][\A c \in Callers :
          (pc[c] = "reject" /\ pc'[c] # "reject") =>
              /\ pc'[c] = "idle"
              /\ isRunning /\ isRunning'
              /\ UNCHANGED <<measures, stdoutLinesRead, proc, stdoutPc,
                             stderrPc, ctxDone, stopFnCalled, pending,
                             groupErr, events, result, rwWriter, rwReaders>>
              /\ \A d \in Callers : d # c => pc'[d] = pc[d]]_vars

\* C2 happens: a call is about to return ErrHandlerAlreadyRunning while the
\* accepted call has stored measures.
C2_Witness ==
    \E c \in Callers, d \in Callers :
        /\ c # d
        /\ pc[c] = "reject"
        /\ pc[d] = "wait"
        /\ isRunning
        /\ measures # EmptyMeasures

\* C3: isRunning is true exactly while some call is between
\* h.isRunning.Store(true) and the end of its deferred function; whatever
\* path the call leaves by, isRunning is false once it has returned.
C3_RunningExactlyWhileInRun ==
    isRunning <=> (\E c \in Callers : InRun(c))

\* C3 happens: a call that stored measures has returned, no call is in
\* progress and isRunning is false.
C3_Witness ==
    /\ \A c \in Callers : pc[c] = "idle"
    /\ measures # EmptyMeasures
    /\ ~isRunning

\* C4: the snapshot GetMeasures is about to return equals the whole buffer
\* as it was at one instant between the call taking the read lock and its
\* return.
C4_SnapshotOfOneInstant ==
    \A q \in Queriers : qpc[q] = "unlock" => snap[q] \in seen[q]

\* C5 as stated: every step that changes the buffer is a store by the
\* primary-stream routine with the write lock held.
C5_OnlyLockedStoresWrite ==
    [][measures' # measures =>
          \E c \in Callers :
              /\ stdoutPc[c] = "write"
              /\ stdoutPc'[c] # "write"
              /\ rwWriter = c]_vars

\* C5, amended: every step that changes the buffer is either a store by the
\* primary-stream routine with the write lock held, or the reset at the
\* start of an accepted call of Run, which empties the buffer and holds no
\* lock.
C5_OnlyStoresAndResetWrite ==
    [][measures' # measures =>
          \/ \E c \in Callers :
                /\ stdoutPc[c] = "write"
                /\ stdoutPc'[c] # "write"
                /\ rwWriter = c
          \/ \E c \in Callers :
                /\ pc[c] = "reset"
                /\ pc'[c] = "launch"
                /\ measures' = EmptyMeasures]_vars

\* C5 happens: the primary-stream routine has stored a measure and is back
\* at reading lines.
C5_Witness ==
    \E c \in Callers :
        /\ stdoutPc[c] = "scan"
        /\ measures # EmptyMeasures
        /\ rwWriter = 0

\* C6 as stated: when the context was cancelled while the streams were
\* drained and no stream task failed otherwise, Run returns the
\* cancellation error.
C6_CancelReturnsCancellation ==
    \A c \in Callers :
        (Returning(c) /\ cancelledInDrain[c] /\ ~taskFailed[c]) =>
            result[c] = "context canceled"

\* C6, amended: Run never returns the cancellation error of the drain; when
\* the context was cancelled while the streams were drained and no stream
\* task failed otherwise, Run goes on to the shutdown and returns nil, or
\* the error of a stream handle that failed to close.
C6_CancelReturnsNil ==
    \A c \in Callers :
        Returning(c) =>
            /\ result[c] # "context canceled"
            /\ (cancelledInDrain[c] /\ ~taskFailed[c]) =>
                  \/ result[c] = "nil" /\ events[c] = ShutdownSteps
                  \/ result[c] = "stdout close error" /\ events[c] = <<>>
                  \/ /\ result[c] = "stderr close error"
                     /\ events[c] = <<"close stdout">>

\* C6 happens: the context was cancelled during the drain, a stream task
\* ended with the cancellation error, and Run is returning nil.
C6_Witness ==
    \E c \in Callers :
        /\ Returning(c)
        /\ cancelledInDrain[c]
        /\ groupErr[c] = "context canceled"
        /\ result[c] = "nil"

\* C7: when a stream task ended with an error other than cancellation, Run
\* returns that error, after both tasks have finished and with stopFn
\* invoked.
C7_StreamErrorReturned ==
    \A c \in Callers :
        (Returning(c) /\ taskFailed[c]) =>
            /\ result[c] = "scan error"
            /\ stdoutPc[c] = "done"
            /\ stderrPc[c] = "done"
            /\ stopFnCalled[c]

\* C8: on every path on which the drain has finished, Run has closed both
\* stream handles, sent the interrupt, waited the grace period, in that
\* order, and the process is not left running, before it returns.
C8_ShutdownOnEveryPath ==
    \A c \in Callers :
        (Returning(c) /\ Launched(c)) =>
            /\ Len(events[c]) >= 4
            /\ SubSeq(events[c], 1, 4) = SubSeq(ShutdownSteps, 1, 4)
            /\ proc[c] # "running"

\* C9: no call of Run whose context was cancelled during the drain returns
\* while its process is still running.
C9_NoReturnWithLiveProcess ==
    [][\A c \in Callers :
          (pc[c] = "deferStore" /\ pc'[c] = "idle" /\ cancelledInDrain[c]) =>
              proc[c] # "running"]_vars

\* C10: every Measure NewMeasure returns without error has its angle in
\* [0, 360), for every accepted raw angle, both orientations and every
\* adjustment of magnitude below 360.
C10_AngleInRange ==
    (mPc = "out" /\ mOut.err = "nil") =>
        /\ mOut.m.angle >= 0
        /\ mOut.m.angle < FullTurn

\* C11: NewMeasure returns an error and no Measure exactly for a reading
\* without the sync bit whose angle is below 0 or at least 360 and for a
\* reading with the sync bit whose angle is below 0; every other reading
\* gives a Measure and no error.
C11_AngleValidation ==
    mPc = "out" =>
        LET refused ==
              \/ ~mIn.hasSyncBit /\ (mIn.angle < 0 \/ mIn.angle >= Deg(360))
              \/ mIn.hasSyncBit /\ mIn.angle < 0
        IN  /\ refused => (mOut.err # "nil" /\ mOut.m = NilMeasure)
            /\ ~refused => (mOut.err = "nil" /\ mOut.m.present)

\* C11 happens: a reading with the sync bit and an angle of two turns was
\* given to NewMeasure and accepted.
C11_Witness ==
    /\ mPc = "out"
    /\ mIn.hasSyncBit
    /\ mIn.angle = Deg(720)
    /\ mOut.err = "nil"
    /\ mOut.m.present

\* C12: for a reading without the sync bit, an angle a in [0, 360) and an
\* adjustment d of magnitude below 360, the angle of the Measure is
\* (a + d) mod 360 when upright and (360 - a + d) mod 360 when upside down.
C12_AdjustedAngle ==
    (/\ mPc = "out"
     /\ ~mIn.hasSyncBit
     /\ mIn.angle >= 0
     /\ mIn.angle < Deg(360)
     /\ mIn.angleAdjustment > -Deg(360)
     /\ mIn.angleAdjustment < Deg(360)) =>
        /\ mOut.err = "nil"
        /\ mOut.m.angle =
              IF mIn.isUpsideDown
              THEN (Deg(360) - mIn.angle + mIn.angleAdjustment) % Deg(360)
              ELSE (mIn.angle + mIn.angleAdjustment) % Deg(360)

\* C12 happens: upright, angle 355 and adjustment +10 gave the angle 5.
C12_Witness ==
    /\ mPc = "out"
    /\ ~mIn.hasSyncBit
    /\ ~mIn.isUpsideDown
    /\ mIn.angle = Deg(355)
    /\ mIn.angleAdjustment = Deg(10)
    /\ mOut.err = "nil"
    /\ mOut.m.angle = Deg(5)

\* C13: for a line without the sync bit that parses, upright and with no
\* adjustment, the text String gives for the Measure parses again, to the
\* same angle, distance and quality.
C13_RoundTrip ==
    (/\ mPc = "reparsed"
     /\ ~mOut.m.hasSyncBit
     /\ ~mIn.isUpsideDown
     /\ mIn.angleAdjustment = Deg(0)) =>
        /\ mOut.again.err = "nil"
        /\ mOut.again.m.angle = mOut.m.angle
        /\ mOut.again.m.distance = mOut.m.distance
        /\ mOut.again.m.quality = mOut.m.quality

\* C14: GetAverageDistanceFromAngle rejects an even width between 2 and 358
\* with ErrAngleWidthMustBeOdd, a width below 1, 0 included, with
\* ErrAngleWidthTooSmall, and an odd width of 361 or more with
\* ErrAngleWidthTooLarge.
C14_WidthErrorKinds ==
    (mPc = "out" /\ mIn.op = "angle") =>
        /\ (mIn.width % 2 = 0 /\ mIn.width >= 2 /\ mIn.width <= 358) =>
              mOut.err = "ErrAngleWidthMustBeOdd"
        /\ mIn.width < 1 => mOut.err = "ErrAngleWidthTooSmall"
        /\ (mIn.width % 2 = 1 /\ mIn.width >= 361) =>
              mOut.err = "ErrAngleWidthTooLarge"

\* C15: for a middle angle in 0..359 and an odd width w with 3 <= w < 360,
\* the slots GetAverageDistanceFromAngle reads are the w slots
\* (middleAngle + k) mod 360 for -(w-1)/2 <= k <= (w-1)/2, each read once
\* and none outside 0..359.
C15_WindowSlots ==
    (/\ mPc = "out"
     /\ mIn.op = "angle"
     /\ mIn.middleAngle \in 0..359
     /\ mIn.width % 2 = 1
     /\ mIn.width >= 3
     /\ mIn.width < 360) =>
        LET half == (mIn.width - 1) \div 2
        IN  /\ Len(mOut.angles) = mIn.width
            /\ {mOut.angles[i] : i \in 1..Len(mOut.angles)} =
                  {(mIn.middleAngle + k) % 360 : k \in (-half)..half}
            /\ \A i \in 1..Len(mOut.angles) : mOut.angles[i] \in 0..359

\* C16: with width 1 and a middle angle in 0..359,
\* GetAverageDistanceFromAngle returns 0.0 and no error when the slot is
\* absent and the stored distance of the slot and no error when it is
\* present, whatever its quality.
C16_SingleSlot ==
    (/\ mPc = "out"
     /\ mIn.op = "angle"
     /\ mIn.width = 1
     /\ mIn.middleAngle \in 0..359) =>
        /\ mOut.outcome = "return"
        /\ mOut.err = "nil"
        /\ mOut.val = IF mIn.middleAngle \in DOMAIN mIn.measures
                      THEN Float(mIn.measures[mIn.middleAngle].distance)
                      ELSE Float(0)

\* C16 happens: width 1 on a slot of distance 600 and quality 0 returned
\* 600.
C16_Witness ==
    /\ mPc = "out"
    /\ mIn.op = "angle"
    /\ mIn.width = 1
    /\ mIn.middleAngle = 11
    /\ 11 \in DOMAIN mIn.measures
    /\ mIn.measures[11].quality = 0
    /\ mOut.outcome = "return"
    /\ mOut.val = Float(600)

\* C17: for a width above 1 the value GetAverageDistanceFromAngle returns
\* is the sum of the distances of the window slots that are present with a
\* nonzero distance and a nonzero quality, divided by their number.
C17_AverageOfUsable ==
    (/\ mPc = "out"
     /\ mIn.op = "angle"
     /\ mIn.middleAngle \in 0..359
     /\ mIn.width % 2 = 1
     /\ mIn.width >= 3
     /\ mIn.width < 360) =>
        LET half   == (mIn.width - 1) \div 2
            window == {(mIn.middleAngle + k) % 360 : k \in (-half)..half}
            usable == {a \in window \cap DOMAIN mIn.measures :
                          /\ mIn.measures[a].distance # 0
                          /\ mIn.measures[a].quality # 0}
            RECURSIVE Sum(_)
            Sum(S) == IF S = {} THEN 0
                      ELSE LET a == CHOOSE a \in S : TRUE
                           IN  mIn.measures[a].distance + Sum(S \ {a})
        IN  /\ mOut.outcome = "return"
            /\ mOut.err = "nil"
            /\ mOut.val = [num |-> Sum(usable), den |-> Cardinality(usable)]

\* C18: for a width above 1, when no slot of the window is usable,
\* GetAverageDistanceFromAngle returns NaN and no error.
C18_NaNWhenNoneUsable ==
    (/\ mPc = "out"
     /\ mIn.op = "angle"
     /\ mIn.middleAngle \in 0..359
     /\ mIn.width % 2 = 1
     /\ mIn.width >= 3
     /\ mIn.width < 360
     /\ LET half == (mIn.width - 1) \div 2
        IN  \A k \in (-half)..half :
               LET a == (mIn.middleAngle + k) % 360
               IN  \/ a \notin DOMAIN mIn.measures
                   \/ mIn.measures[a].distance = 0
                   \/ mIn.measures[a].quality = 0) =>
        /\ mOut.outcome = "return"
        /\ mOut.err = "nil"
        /\ mOut.val.den = 0
        /\ mOut.val.num = 0

\* C19: GetAverageDistanceFromDirection resolves each of the 16 directions
\* to ceil(a) when its angle a is at least 180 and to floor(a) when it is
\* below 180, an angle in 0..359, and returns what
\* GetAverageDistanceFromAngle returns for that middle angle on the same
\* buffer and width.
C19_DirectionResolution ==
    (mPc = "out" /\ mIn.op = "direction" /\ mIn.direction # "Nil") =>
        LET r == mIn.direction
            middle == CASE r = "North"          -> 0
                        [] r = "NorthNortheast" -> 22
                        [] r = "Northeast"      -> 45
                        [] r = "EastNortheast"  -> 67
                        [] r = "East"           -> 90
                        [] r = "EastSoutheast"  -> 112
                        [] r = "Southeast"      -> 135
                        [] r = "SouthSoutheast" -> 157
                        [] r = "South"          -> 180
                        [] r = "SouthSouthwest" -> 203
                        [] r = "Southwest"      -> 225
                        [] r = "WestSouthwest"  -> 248
                        [] r = "West"           -> 270
                        [] r = "WestNorthwest"  -> 293
                        [] r = "Northwest"      -> 315
                        [] r = "NorthNorthwest" -> 338
        IN  /\ middle \in 0..359
            /\ mOut = GetAverageDistanceFromAngle(mIn.measures, middle,
                                                  mIn.width)

\* C19 happens: south-southwest (202.5) with width 1 returned the distance
\* stored in slot 203.
C19_Witness ==
    /\ mPc = "out"
    /\ mIn.op = "direction"
    /\ mIn.direction = "SouthSouthwest"
    /\ mIn.width = 1
    /\ 203 \in DOMAIN mIn.measures
    /\ mOut.outcome = "return"
    /\ mOut.angles = <<203>>
    /\ mOut.val = Float(750)

\* C20 as stated: south-southeast (157.5) is resolved to the middle angle
\* 158 and north-northeast (22.5) to 22.
C20_HalfDegreesAsStated ==
    (mPc = "out" /\ mIn.op = "direction") =>
        /\ mIn.direction = "SouthSoutheast" =>
              mOut = GetAverageDistanceFromAngle(mIn.measures, 158, mIn.width)
        /\ mIn.direction = "NorthNortheast" =>
              mOut = GetAverageDistanceFromAngle(mIn.measures, 22, mIn.width)

\* C20, amended: south-southeast (157.5), below 180, is resolved to the
\* middle angle 157, and north-northeast (22.5) to 22.
C20_HalfDegreesBelow180 ==
    (mPc = "out" /\ mIn.op = "direction") =>
        /\ mIn.direction = "SouthSoutheast" =>
              mOut = GetAverageDistanceFromAngle(mIn.measures, 157, mIn.width)
        /\ mIn.direction = "NorthNortheast" =>
              mOut = GetAverageDistanceFromAngle(mIn.measures, 22, mIn.width)

\* C20 happens: south-southeast with width 1 returned the distance stored
\* in slot 157.
C20_Witness ==
    /\ mPc = "out"
    /\ mIn.op = "direction"
    /\ mIn.direction = "SouthSoutheast"
    /\ mIn.width = 1
    /\ 157 \in DOMAIN mIn.measures
    /\ mOut.outcome = "return"
    /\ mOut.angles = <<157>>
    /\ mOut.val = Float(200)


\* The distinct directions of a list.
Requested(directions) == {directions[i] : i \in DOMAIN directions}

\* C21: GetAverageDistancesFromDirections never returns a partial map: it
\* returns either an error and the nil map, which it does when the width is
\* invalid and a direction is requested, or no error and a map with exactly
\* one entry per distinct requested direction, each entry the value
\* GetAverageDistanceFromDirection returns for that direction on the same
\* buffer and width.
C21_AllOrNothing ==
    (mPc = "out" /\ mIn.op = "directions") =>
        /\ mOut.outcome = "return"
        /\ IF CheckWidth(mIn.width) # "nil" /\ mIn.directions # <<>>
           THEN /\ mOut.err = CheckWidth(mIn.width)
                /\ mOut.isNil
           ELSE /\ mOut.err = "nil"
                /\ ~mOut.isNil
                /\ DOMAIN mOut.avgDistances = Requested(mIn.directions)
                /\ \A r \in Requested(mIn.directions) :
                      LET one == GetAverageDistanceFromDirection(
                                     mIn.measures, mIn.width, r)
                      IN  /\ one.outcome = "return"
                          /\ one.err = "nil"
                          /\ mOut.avgDistances[r] = one.val
\* C22: whenever the primary-stream handler is about to store a Measure,
\* the slot index int(angle) % 360 it computes lies in 0..359, for an
\* upright or inverted sensor, rotation-marked readings and adjustments of
\* either sign.
C22_IndexInBuffer ==
    \A c \in Callers :
        stdoutPc[c] = "write" =>
            GoRem(GoInt(pending[c].angle), NumSlots) \in Slots

\* C23: the store of an accepted measurement replaces the content of the
\* single slot floor(angle) mod 360 by that measurement and leaves every
\* other slot as it was, so a slot holds the measurement most recently
\* stored in it.
C23_OneSlotReplaced ==
    [][\A c \in Callers :
          (stdoutPc[c] = "write" /\ (stdoutPc'[c] # "write" \/ panicked')) =>
              LET slot == (pending[c].angle \div Deg(1)) % NumSlots
              IN  measures' = WithMeasure(measures, slot, pending[c])]_vars

\* C24: a primary-stream line past the skipped ones that fails to parse or
\* to validate, or whose distance is below 0 or above maxDistanceLimit,
\* leaves every slot of the buffer as it was, leaves the routine reading
\* lines and records no error for Run; a line that parses with a distance
\* of 0 or of maxDistanceLimit is accepted and goes on to the store.
C24_DroppedLines ==
    [][\A c \in Callers, line \in IngestLines :
          (StdoutLine(c, line, FALSE) /\ ~ctxDone[c]
              /\ stdoutLinesRead >= IgnoreFirstStdoutMessages) =>
              LET r == NewMeasureFromString(line, isUpsideDown,
                                            angleAdjustment)
              IN  /\ (\/ r.err # "nil"
                      \/ r.m.distance < 0
                      \/ r.m.distance > maxDistanceLimit) =>
                         /\ measures' = measures
                         /\ stdoutPc'[c] = "scan"
                         /\ groupErr' = groupErr
                         /\ taskFailed' = taskFailed
                         /\ result' = result
                         /\ ~panicked'
                  /\ (r.err = "nil"
                         /\ r.m.distance \in {0, maxDistanceLimit}) =>
                         /\ stdoutPc'[c] = "lock"
                         /\ pending'[c] = r.m]_vars

\* C24 happens: eight lines were read, a reading of distance
\* maxDistanceLimit is in the buffer, and the routine is still reading
\* lines with no error recorded.
C24_Witness ==
    /\ stdoutLinesRead = MaxStdoutLines
    /\ stdoutPc[1] = "scan"
    /\ groupErr[1] = "nil"
    /\ \E i \in DOMAIN measures : measures[i].distance = maxDistanceLimit

\* C25: in every run the line counter is zero when the process is launched
\* and goes up by one with each line read and with nothing else, each of
\* the first 6 lines leaves the buffer and the routine as they were,
\* well-formed or not, and the 7th and every later line is parsed: a
\* well-formed reading in range is accepted for the store.
C25_SkipInEveryRun ==
    [][\A c \in Callers :
          /\ (pc[c] = "launch" /\ pc'[c] = "wait") => stdoutLinesRead' = 0
          /\ (stdoutPc[c] \in {"scan", "lock", "write"}
                 /\ stdoutLinesRead' # stdoutLinesRead) =>
                 /\ stdoutPc[c] = "scan"
                 /\ stdoutLinesRead' = stdoutLinesRead + 1
          /\ \A line \in IngestLines :
                (StdoutLine(c, line, FALSE) /\ ~ctxDone[c]) =>
                    LET r == NewMeasureFromString(line, isUpsideDown,
                                                  angleAdjustment)
                    IN  /\ stdoutLinesRead' = stdoutLinesRead + 1
                        /\ IF stdoutLinesRead' <= 6
                           THEN /\ measures' = measures
                                /\ pending' = pending
                                /\ stdoutPc'[c] = "scan"
                           ELSE (/\ r.err = "nil"
                                 /\ r.m.distance >= 0
                                 /\ r.m.distance <= maxDistanceLimit) =>
                                    /\ pending'[c] = r.m
                                    /\ stdoutPc'[c] = "lock"]_vars

\* C25 happens: seven lines were read in the run and the buffer holds one
\* measurement, that of the 7th line.
C25_Witness ==
    /\ stdoutLinesRead = 7
    /\ stdoutPc[1] = "scan"
    /\ Cardinality(DOMAIN measures) = 1

\* C26: the buffer becomes empty only in the reset at the start of an
\* accepted Run; the reset comes before the executable check, so the buffer
\* is empty when that check is made, whatever its outcome; the return of a
\* run leaves the buffer as it was, and a query made while the handler is
\* idle returns the buffer the last run left.
C26_ClearedOnlyAtRunStart ==
    [][/\ (measures' = EmptyMeasures /\ measures # EmptyMeasures) =>
              \E c \in Callers : pc[c] = "reset" /\ pc'[c] = "launch"
       /\ \A c \in Callers :
              /\ (pc[c] = "reset" /\ pc'[c] # "reset") =>
                     measures' = EmptyMeasures
              /\ pc[c] = "launch" => measures = EmptyMeasures
              /\ (pc[c] # "idle" /\ pc'[c] = "idle") => measures' = measures
       /\ \A q \in Queriers :
              (/\ qpc[q] = "unlock"
               /\ qpc'[q] = "idle"
               /\ ~isRunning
               /\ seen[q] = {measures}) => snap[q] = measures]_vars

\* C26 happens: the run has returned, the handler is idle, the buffer still
\* holds a measurement of that run, and a query is about to return it.
C26_Witness ==
    /\ pc[1] = "idle"
    /\ ~isRunning
    /\ measures # EmptyMeasures
    /\ \E q \in Queriers :
          /\ qpc[q] = "unlock"
          /\ seen[q] = {measures}
          /\ snap[q] = measures

=============================================================================
